---- MODULE Spec2Model ----
(***************************************************************************)
(* A model of two routines of the xbps library:                            *)
(*   lib/package_unpack.c       unpacking of one binary package            *)
(*   lib/repository_pool_find.c lookups in the repository pool             *)
(* Spec is the unpack state machine, PoolSpec the repository pool one.     *)
(***************************************************************************)
EXTENDS Integers, Sequences, FiniteSets, TLC

\* ------------------------------------------------------------------ bounds
\* Archive headers read by one unpack.
MaxEntries == 5
\* Repositories of the pool, and the highest version a package comes in.
MaxRepos == 3
MaxVer == 2

\* ------------------------------------------------------- program constants
ENOENT == 2
ENOMEM == 12
ENODEV == 19
\* entry_idx value at which a further data entry ahead of the manifests is
\* rejected.
SkipLimit == 3

\* errno values a failing external call (libarchive, the file system, the
\* state store, the INSTALL script) may report: EIO stands for all of them.
ErrnoSet == {5}

\* ------------------------------------------------------------ file system
\* Data entries of the archive: a regular file, a regular file the
\* properties declare as configuration file, a symbolic link.
DataPaths == {"f", "c", "l"}
\* Paths of the root directory the model follows: the data paths, the backup
\* of the configuration file, a file only the previous version owns.
DiskPaths == DataPaths \cup {"c.old", "o"}
\* "new" is the content (and digest) the new manifest records for the path;
\* "old" is any other content.
Contents == {"absent", "old", "new"}

VARIABLES
    pc,          \* position in xbps_unpack_binary_pkg / unpack_archive
    update,      \* transaction == "update"
    preserve,    \* pkg_repod["preserve"]
    hascb,       \* xhp->unpack_cb != NULL
    pkgstate,    \* the persisted install state of the package
    disk,        \* content of the root directory
    meta,        \* content of the package metadata directory
    filesd,      \* files.plist was internalized (filesd != NULL)
    propsd,      \* props.plist was internalized (propsd != NULL)
    entry_idx,   \* data entries skipped ahead of the manifests
    extract_count, \* xucd->entry_extract_count: calls of the unpack callback
    nread,       \* archive headers read so far
    rv,          \* return value of the routine in progress
    ar_errno,    \* archive_errno(ar)
    h            \* history of the run (not program state)

uvars == <<pc, update, preserve, hascb, pkgstate, disk, meta, filesd, propsd,
           entry_idx, extract_count, nread, rv, ar_errno, h>>

\* The repository pool and one lookup in it.
VARIABLES
    pool,        \* the repositories in pool order (the URI is the position)
    annot,       \* the "repository" object of each catalog entry (0: not set)
    ppc,         \* position in xbps_repository_pool_find_*
    call,        \* the public routine called and its arguments
    rpf,         \* struct repo_pool_fpkg of the scan in progress
    outer,       \* the struct of the best-match scan while the exact one runs
    cb,          \* the callback handed to xbps_repository_pool_foreach
    idx,         \* the repository the iteration visits next
    done,        \* *done
    frv,         \* the value the last callback returned
    perrno,      \* errno
    result,      \* the dictionary handed to the caller
    ph           \* history of the lookup (not program state)

pvars == <<pool, annot, ppc, call, rpf, outer, cb, idx, done, frv, perrno,
           result, ph>>

vars == <<uvars, pvars>>

\* ------------------------------------------------------------- pure parts

\* S_ISREG(entry_statp->st_mode)
IsReg(p) == p # "l"

\* xbps_entry_is_a_conf_file(propsd, entry_pname)
IsConfFile(p) == p = "c"

\* Variant: the entry is skipped only while both manifests are missing.
ManifestsBothMissing(pd, fd) == ~pd /\ ~fd

\* The test that makes the loop skip a data entry.
ManifestsMissing(pd, fd) == ~pd \/ ~fd

\* archive_read_next_header on the error number of the handle: the library
\* may reset it before reading the header, or keep the last error.
HeaderErrno(old, clears) == IF clears THEN 0 ELSE old

\* Results xbps_file_hash_check_dictionary can give for a file on disk:
\* -1 error, 0 digest matches the manifest, 1 digest differs.
HashResults(content) == {-1} \cup (IF content = "new" THEN {0} ELSE {1})

\* Variant: a matching digest does not make the loop skip the entry.
HashNeverSkips(exists, hash) == FALSE

\* A regular file that exists with the digest the new manifest records is
\* skipped.
HashSkips(exists, hash) == exists /\ hash = 0

\* rename(entry_pname, "<entry_pname>.old"); its result is ignored.
Rename(d, p, ok) ==
    IF ok /\ p = "c" THEN [d EXCEPT !["c.old"] = d["c"], !["c"] = "absent"]
    ELSE d

\* archive_read_extract of a data entry: e = 0 writes the file.
Extract(d, p, e) ==
    [act |-> "extract", rv |-> e, ren |-> "no",
     disk |-> IF e = 0 THEN [d EXCEPT ![p] = "new"] ELSE d]

\* The handling of one data entry once both manifests are known.
DataStep(p, d, upd, hash, cres, renok, e) ==
    LET reg    == IsReg(p)
        conf   == reg /\ IsConfFile(p)
        exists == reg /\ d[p] # "absent"
        skip(a, r) == [act |-> a, rv |-> r, ren |-> "no", disk |-> d]
    IN  IF exists /\ hash = -1 THEN skip("error", -1)
        ELSE IF HashSkips(exists, hash) THEN skip("hashskip", 0)
        ELSE IF ~upd /\ conf /\ exists THEN
            [Extract(Rename(d, p, renok), p, e)
                EXCEPT !.ren = IF renok THEN "ok" ELSE "fail"]
        ELSE IF upd /\ conf /\ exists THEN
            IF cres = -1 THEN skip("error", -1)
            ELSE IF cres = 0 THEN skip("keep", 0)
            ELSE Extract(d, p, e)
        ELSE Extract(d, p, e)

\* Variant: only the INSTALL script of the installed version is removed.
RemoveScriptsKeepsRemove(m, upd, o) ==
    IF upd /\ o \in {"ok", "rm2"} THEN [m EXCEPT !.INSTALL = FALSE] ELSE m

\* The metadata directory after the two remove_metafile calls of an update:
\* o = "ok" both unlinks went through (a missing file is not a failure),
\* "rm2" the unlink of REMOVE failed, anything else: nothing was removed.
RemoveScripts(m, upd, o) ==
    IF upd /\ o \in {"ok", "rm2"}
      THEN [m EXCEPT !.INSTALL = FALSE,
                     !.REMOVE = IF o = "ok" THEN FALSE ELSE @]
      ELSE m

\* The results of the calls a data entry does not make are kept at one
\* value: the digest check is made for a regular file that exists, the
\* configuration file routine on an update and the rename on an install,
\* for a configuration file that exists with another digest.
Consulted(p, d, upd, hash, cres, renok) ==
    LET exists == IsReg(p) /\ d[p] # "absent"
        conf   == exists /\ IsConfFile(p) /\ hash = 1
    IN  /\ hash \in IF exists THEN HashResults(d[p]) ELSE {1}
        /\ ~(upd /\ conf) => cres = 1
        /\ ~(~upd /\ conf) => renok

\* Variant: a data entry ahead of the manifests is refused one entry later.
RejectsEntryLate(n) == n > SkipLimit

\* A data entry ahead of the manifests is refused once SkipLimit of them
\* were skipped.
RejectsEntry(n) == n >= SkipLimit

\* Variant: the manifest is written to the metadata directory as soon as it
\* was internalized.
AfterInternalizeWritesManifest(m, x) ==
    IF x = 0 THEN [m EXCEPT !.files = "new"] ELSE m

\* The metadata directory after "./files.plist" was internalized: the
\* manifest is kept in memory and written at the end.
AfterInternalize(m, x) == m

\* Variant: a package file that cannot be opened is not acted upon.
AfterOpenGoesOn(r) == "opened"

\* After the package file was located and opened: return on failure.
AfterOpen(r) == IF r # 0 THEN "done" ELSE "opened"

\* Variant: the failure to write half-unpacked is not acted upon.
AfterHalfUnpackedGoesOn(r) == "unpack"

\* After the call that writes half-unpacked: stop on failure.
AfterHalfUnpacked(r) == IF r # 0 THEN "done" ELSE "unpack"

\* Variant: the exit status of the pre action is not acted upon.
AfterPreInstallGoesOn(s) == "loop"

\* After the pre action of the INSTALL script: stop when it failed.
AfterPreInstall(s) == IF s # 0 THEN "ret" ELSE "loop"

\* Variant: unpacked is never written.
WritesUnpackedNever(r) == FALSE

\* After unpack_archive returned: write unpacked only on success.
WritesUnpacked(r) == r = 0

\* xucd->entry_extract_count++ and the callback, when a callback is set.
Callback(n, set) == IF set THEN n + 1 ELSE n


\* --------------------------------------------------------- repository pool
Repos == 1 .. MaxRepos

\* One repository index: the version of package "foo" it holds (0: none),
\* whether it holds "bar-1", which provides the virtual package "foo-1", and
\* whether its index cannot be searched (every lookup in it fails with an
\* error other than ENOENT).
RepoContents ==
    {r \in [foo : 0 .. MaxVer, virt : BOOLEAN, bad : BOOLEAN] :
        r.bad => (r.foo = 0 /\ ~r.virt)}

\* No dictionary (NULL). ref is the repository whose catalog holds the
\* object, 0 for a copy.
NullPkg == [name |-> "none", ver |-> 0, repository |-> 0, ref |-> 0]

\* The catalog entry `name` of repository i, as it is now.
Entry(pl, an, i, name) ==
    [name |-> name, ver |-> IF name = "foo" THEN pl[i].foo ELSE 1,
     repository |-> an[i][name], ref |-> i]

\* prop_dictionary_copy
Copy(d) == [d EXCEPT !.ref = 0]

\* xbps_find_pkg_in_dict_by_name / _by_pattern: the target is the name
\* "foo", or the pattern "foo>=k".
HasPkg(r, bypattern, k) == r.foo # 0 /\ (bypattern => r.foo >= k)

\* xbps_find_pkg_in_dict_by_pkgver: the target is "foo-k".
HasPkgver(r, k) == r.foo # 0 /\ r.foo = k

\* xbps_find_virtualpkg_in_dict_by_name / _by_pattern and the _conf_ pair.
HasVirtual(r, bypattern, k) == r.virt /\ (bypattern => 1 >= k)

\* errno after a lookup in repository r that found nothing.
LookupErrno(r) == IF r.bad THEN 5 ELSE ENOENT

\* The version comparator: -1, 0 or 1 as a is lower than, equal to or
\* greater than b.
xbps_cmpver(a, b) == IF a < b THEN -1 ELSE IF a = b THEN 0 ELSE 1

\* repo_find_best_pkg_cb: whether the match found replaces the best one.
ReplacesBest(repopkgver, bestpkgver) == xbps_cmpver(repopkgver, bestpkgver) # 0

\* repo_find_pkg: the struct as initialized for a target.
NewRpf(pkg, bypattern, exact) ==
    [pattern |-> pkg, bypattern |-> bypattern, exact |-> exact,
     pkgd |-> NullPkg, bestpkgver |-> 0, repo_bestmatch |-> 0]

\* repo_find_pkg: the callback the arguments select.
Dispatch(exact, best, virtual) ==
    IF exact THEN "pkg"
    ELSE IF best THEN "best"
    ELSE IF virtual THEN "virt"
    ELSE "pkg"

\* xbps_repository_pool_foreach: the iteration goes on while repositories
\* are left, done is not set and the callback returned 0.
ForeachMore(i, d, r) == i <= MaxRepos /\ ~d /\ r = 0

\* repo_find_pkg_cb: an exact lookup skips the repositories other than
\* repo_bestmatch, when one is set.
PkgCbSkips(f, i) == f.exact /\ f.repo_bestmatch # 0 /\ f.repo_bestmatch # i

\* Variant: the virtual packages are looked up before the packages, in
\* every mode.
PkgCbLookupVirtualFirst(f, pl, an, i) ==
    IF HasVirtual(pl[i], f.bypattern, f.pattern) THEN Entry(pl, an, i, "bar")
    ELSE IF f.exact THEN
        IF HasPkgver(pl[i], f.pattern) THEN Entry(pl, an, i, "foo") ELSE NullPkg
    ELSE IF HasPkg(pl[i], f.bypattern, f.pattern) THEN Entry(pl, an, i, "foo")
    ELSE NullPkg

\* repo_find_pkg_cb: the dictionary looked up in repository i.
PkgCbLookup(f, pl, an, i) ==
    IF f.exact THEN
        IF HasPkgver(pl[i], f.pattern) THEN Entry(pl, an, i, "foo") ELSE NullPkg
    ELSE IF HasPkg(pl[i], f.bypattern, f.pattern) THEN Entry(pl, an, i, "foo")
    ELSE IF HasVirtual(pl[i], f.bypattern, f.pattern) THEN Entry(pl, an, i, "bar")
    ELSE NullPkg

\* Variant: the callback never sets *done.
PkgCbNeverDone(found) == FALSE

\* repo_find_pkg_cb: *done once a dictionary was found.
PkgCbDone(found) == found

\* The public routines: their arguments to repo_find_pkg.
Calls ==
    {c \in [fn : {"find_pkg", "find_virtualpkg", "find_pkg_exact"},
            bypattern : BOOLEAN, best : BOOLEAN, pkg : 1 .. MaxVer] :
        /\ c.fn = "find_pkg_exact" => (~c.bypattern /\ ~c.best)
        /\ (c.fn # "find_pkg_exact" /\ ~c.bypattern) => c.pkg = 1}

NoCall == [fn |-> "none", bypattern |-> FALSE, best |-> FALSE, pkg |-> 1]

\* ------------------------------------------------------------------- Init
\* The metadata directory before the unpack: the scripts of an earlier
\* unpack may be there or not (on an install they are followed on a root
\* that holds none of the files), the properties and the manifest are those
\* of the installed version, if any.
InitMeta(upd) ==
    {[INSTALL |-> s, REMOVE |-> s, props |-> upd, files |-> f] :
        s \in BOOLEAN, f \in IF upd THEN {"old", "none"} ELSE {"none"}}

\* The root before the unpack: the two regular files are both absent (a
\* fresh root), both of another content, or both as the new package ships
\* them; the obsolete file is there when a previous version is installed.
InitDisk(upd) ==
    {[p \in DiskPaths |->
        CASE p \in {"f", "c"} -> c
          [] p = "o" -> IF upd THEN "old" ELSE "absent"
          [] OTHER   -> "absent"] : c \in Contents}

InitHistory ==
    [halfWritten |-> FALSE, halfFailed |-> FALSE, pre |-> "no",
     extractFailed |-> FALSE, entryErrAt |-> 0, earlyData |-> FALSE,
     obs |-> "notrun", persisted |-> FALSE, extracted |-> {},
     eof |-> FALSE, fault |-> FALSE, preAt |-> 0, later |-> FALSE,
     rmFailed |-> FALSE, shipped |-> {}, unwritten |-> FALSE,
     confPre |-> "none", confSkip |-> "none", nocb |-> FALSE,
     openFailed |-> FALSE]

\* The pool part while an unpack is followed, and the reverse.
PoolOff ==
    /\ pool = [i \in Repos |-> [foo |-> 0, virt |-> FALSE, bad |-> FALSE]]
    /\ annot = [i \in Repos |-> [foo |-> 0, bar |-> 0]]
    /\ ppc = "off"
    /\ call = NoCall
    /\ rpf = NewRpf(1, FALSE, FALSE)
    /\ outer = NewRpf(1, FALSE, FALSE)
    /\ cb = "pkg"
    /\ idx = 1
    /\ done = FALSE
    /\ frv = 0
    /\ perrno = 0
    /\ result = NullPkg
    /\ ph = [visited |-> <<>>]

UnpackOff ==
    /\ pc = "off"
    /\ update = FALSE
    /\ preserve = FALSE
    /\ hascb = FALSE
    /\ pkgstate = "not-installed"
    /\ disk = [p \in DiskPaths |-> "absent"]
    /\ meta = [INSTALL |-> FALSE, REMOVE |-> FALSE, props |-> FALSE,
               files |-> "none"]
    /\ filesd = FALSE
    /\ propsd = FALSE
    /\ entry_idx = 0
    /\ extract_count = 0
    /\ nread = 0
    /\ rv = 0
    /\ ar_errno = 0
    /\ h = InitHistory

Init ==
    /\ PoolOff
    /\ pc = "start"
    /\ update \in BOOLEAN
    /\ preserve \in BOOLEAN
    /\ hascb \in BOOLEAN
    /\ pkgstate = IF update THEN "installed" ELSE "not-installed"
    /\ disk \in InitDisk(update)
    /\ meta \in InitMeta(update)
    /\ (~update /\ meta.INSTALL) => disk["f"] = "absent"
    /\ filesd = FALSE
    /\ propsd = FALSE
    /\ entry_idx = 0
    /\ extract_count = 0
    /\ nread = 0
    /\ rv = 0
    /\ ar_errno = 0
    /\ h = InitHistory

\* ---------------------------------------------------------------- actions
\* xbps_unpack_binary_pkg up to the opening of the archive.
OpenArchive ==
    /\ pc = "start"
    /\ \E r \in {0, ENOMEM} \cup ErrnoSet :
        /\ rv' = r
        /\ pc' = AfterOpen(r)
        /\ h' = [h EXCEPT !.fault = (r # 0), !.openFailed = (r # 0)]
    /\ UNCHANGED pvars
    /\ UNCHANGED <<update, preserve, hascb, pkgstate, disk, meta, filesd,
                   propsd, entry_idx, extract_count, nread, ar_errno>>

\* xbps_set_pkg_state_installed(..., XBPS_PKG_STATE_HALF_UNPACKED)
SetHalfUnpacked ==
    /\ pc = "opened"
    /\ \E r \in {0} \cup ErrnoSet :
        /\ rv' = r
        /\ pkgstate' = IF r = 0 THEN "half-unpacked" ELSE pkgstate
        /\ pc' = AfterHalfUnpacked(r)
        /\ h' = [h EXCEPT !.halfWritten = (r = 0), !.halfFailed = (r # 0),
                          !.fault = (r # 0)]
    /\ UNCHANGED pvars
    /\ UNCHANGED <<update, preserve, hascb, disk, meta, filesd, propsd,
                   entry_idx, extract_count, nread, ar_errno>>

\* unpack_archive before the loop: callback data, root directory, and on an
\* update the removal of the installed INSTALL and REMOVE scripts.
\* o = "ok", "fail" (before any removal), "rm1" (unlink of INSTALL failed),
\* "rm2" (unlink of REMOVE failed).
Prelude ==
    /\ pc = "unpack"
    /\ \E o \in {"ok", "fail"} \cup (IF update THEN {"rm1", "rm2"} ELSE {}),
          e \in ErrnoSet :
        /\ meta' = RemoveScripts(meta, update, o)
        /\ rv' = IF o = "ok" THEN rv ELSE e
        /\ pc' = IF o = "ok" THEN "loop" ELSE "ret"
        /\ h' = [h EXCEPT !.fault = (o # "ok"),
                          !.rmFailed = (o \in {"rm1", "rm2"})]
    /\ UNCHANGED pvars
    /\ UNCHANGED <<update, preserve, hascb, pkgstate, disk, filesd, propsd,
                   entry_idx, extract_count, nread, ar_errno>>

\* A directory entry: its data is skipped.
EntryDir ==
    /\ pc = "loop" /\ nread < MaxEntries
    /\ \E clears \in BOOLEAN :
        /\ ar_errno = 0 => clears
        /\ ar_errno' = HeaderErrno(ar_errno, clears)
    /\ nread' = nread + 1
    /\ UNCHANGED pvars
    /\ UNCHANGED <<pc, update, preserve, hascb, pkgstate, disk, meta, filesd,
                   propsd, entry_idx, extract_count, rv, h>>

\* "./INSTALL": extract_metafile, then the pre action of the script.
\* x is the result of extract_metafile, s the exit status of the script.
EntryInstall ==
    /\ pc = "loop" /\ nread < MaxEntries
    /\ nread' = nread + 1
    /\ \E clears \in BOOLEAN, x \in {0, ENOMEM} \cup ErrnoSet,
          s \in {0} \cup ErrnoSet :
        LET r == IF x # 0 THEN x ELSE s IN
        /\ ar_errno = 0 => clears
        /\ x # 0 => s = 0
        /\ ar_errno' = IF x \in ErrnoSet THEN x ELSE HeaderErrno(ar_errno, clears)
        /\ meta' = IF x = 0 THEN [meta EXCEPT !.INSTALL = TRUE] ELSE meta
        /\ rv' = r
        /\ pc' = IF x # 0 THEN "ret" ELSE AfterPreInstall(s)
        /\ extract_count' = IF r = 0 THEN Callback(extract_count, hascb)
                            ELSE extract_count
        /\ h' = [h EXCEPT !.pre = IF x # 0 THEN @ ELSE IF s = 0 THEN "ok" ELSE "fail",
                          !.shipped = IF x = 0 THEN @ \cup {"INSTALL"} ELSE @,
                          !.preAt = IF x = 0 /\ s # 0 THEN nread + 1 ELSE @,
                          !.fault = @ \/ r # 0,
                          !.later = @ \/ h.entryErrAt # 0,
                          !.entryErrAt = IF r # 0 /\ @ = 0 THEN nread + 1 ELSE @]
    /\ UNCHANGED pvars
    /\ UNCHANGED <<update, preserve, hascb, pkgstate, disk, filesd, propsd,
                   entry_idx>>

\* "./REMOVE": extract_metafile.
EntryRemove ==
    /\ pc = "loop" /\ nread < MaxEntries
    /\ nread' = nread + 1
    /\ \E clears \in BOOLEAN, x \in {0, ENOMEM} \cup ErrnoSet :
        /\ ar_errno = 0 => clears
        /\ ar_errno' = IF x \in ErrnoSet THEN x ELSE HeaderErrno(ar_errno, clears)
        /\ meta' = IF x = 0 THEN [meta EXCEPT !.REMOVE = TRUE] ELSE meta
        /\ rv' = x
        /\ pc' = IF x # 0 THEN "ret" ELSE "loop"
        /\ extract_count' = IF x = 0 THEN Callback(extract_count, hascb)
                            ELSE extract_count
        /\ h' = [h EXCEPT !.fault = @ \/ x # 0,
                          !.shipped = IF x = 0 THEN @ \cup {"REMOVE"} ELSE @,
                          !.later = @ \/ h.entryErrAt # 0,
                          !.entryErrAt = IF x # 0 /\ @ = 0 THEN nread + 1 ELSE @]
    /\ UNCHANGED pvars
    /\ UNCHANGED <<update, preserve, hascb, pkgstate, disk, filesd, propsd,
                   entry_idx>>

\* "./files.plist": xbps_dictionary_from_archive_entry.
EntryFiles ==
    /\ pc = "loop" /\ nread < MaxEntries
    /\ nread' = nread + 1
    /\ \E clears \in BOOLEAN, x \in {0} \cup ErrnoSet :
        /\ ar_errno = 0 => clears
        /\ ar_errno' = HeaderErrno(ar_errno, clears)
        /\ filesd' = IF x = 0 THEN TRUE ELSE filesd
        /\ meta' = AfterInternalize(meta, x)
        /\ rv' = IF x = 0 THEN rv ELSE x
        /\ pc' = IF x # 0 THEN "ret" ELSE "loop"
        /\ extract_count' = IF x = 0 THEN Callback(extract_count, hascb)
                            ELSE extract_count
        /\ h' = [h EXCEPT !.fault = @ \/ x # 0,
                          !.later = @ \/ h.entryErrAt # 0,
                          !.entryErrAt = IF x # 0 /\ @ = 0 THEN nread + 1 ELSE @]
    /\ UNCHANGED pvars
    /\ UNCHANGED <<update, preserve, hascb, pkgstate, disk, propsd,
                   entry_idx>>

\* "./props.plist": extract_metafile, then
\* xbps_dictionary_from_metadata_plist. x is the result of the first, y of
\* the second.
EntryProps ==
    /\ pc = "loop" /\ nread < MaxEntries
    /\ nread' = nread + 1
    /\ \E clears \in BOOLEAN, x \in {0, ENOMEM} \cup ErrnoSet,
          y \in {0} \cup ErrnoSet :
        LET r == IF x # 0 THEN x ELSE y IN
        /\ ar_errno = 0 => clears
        /\ x # 0 => y = 0
        /\ ar_errno' = IF x \in ErrnoSet THEN x ELSE HeaderErrno(ar_errno, clears)
        /\ meta' = IF x = 0 THEN [meta EXCEPT !.props = TRUE] ELSE meta
        /\ propsd' = IF r = 0 THEN TRUE ELSE propsd
        /\ rv' = r
        /\ pc' = IF r # 0 THEN "ret" ELSE "loop"
        /\ extract_count' = IF r = 0 THEN Callback(extract_count, hascb)
                            ELSE extract_count
        /\ h' = [h EXCEPT !.fault = @ \/ r # 0,
                          !.later = @ \/ h.entryErrAt # 0,
                          !.entryErrAt = IF r # 0 /\ @ = 0 THEN nread + 1 ELSE @]
    /\ UNCHANGED pvars
    /\ UNCHANGED <<update, preserve, hascb, pkgstate, disk, filesd, entry_idx>>

\* A data entry while a manifest is missing: skipped, counted, and refused
\* once SkipLimit entries were skipped.
EntrySkipped ==
    /\ pc = "loop" /\ nread < MaxEntries
    /\ ManifestsMissing(propsd, filesd)
    /\ nread' = nread + 1
    /\ \E clears \in BOOLEAN :
        /\ ar_errno = 0 => clears
        /\ ar_errno' = HeaderErrno(ar_errno, clears)
    /\ IF RejectsEntry(entry_idx)
         THEN /\ rv' = ENODEV
              /\ pc' = "ret"
              /\ entry_idx' = entry_idx
              /\ h' = [h EXCEPT !.entryErrAt = IF @ = 0 THEN nread + 1 ELSE @]
         ELSE /\ entry_idx' = entry_idx + 1
              /\ h' = [h EXCEPT !.later = @ \/ h.entryErrAt # 0,
                                !.nocb = @ \/ hascb]
              /\ UNCHANGED <<rv, pc>>
    /\ UNCHANGED pvars
    /\ UNCHANGED <<update, preserve, hascb, pkgstate, disk, meta, filesd,
                   propsd, extract_count>>

\* A data entry once both manifests are known.
EntryData ==
    /\ pc = "loop" /\ nread < MaxEntries
    /\ ~ManifestsMissing(propsd, filesd)
    /\ nread' = nread + 1
    /\ \E clears \in BOOLEAN, p \in DataPaths, hash \in {-1, 0, 1},
          cres \in {-1, 0, 1}, renok \in BOOLEAN, e \in {0} \cup ErrnoSet :
        /\ ar_errno = 0 => clears
        /\ LET s == DataStep(p, disk, update, hash, cres, renok, e) IN
            \* a result that is not consulted is not varied
            /\ Consulted(p, disk, update, hash, cres, renok)
            /\ s.act # "extract" => e = 0
            /\ disk' = s.disk
            /\ ar_errno' = IF s.act = "extract" /\ s.rv # 0 THEN s.rv
                           ELSE HeaderErrno(ar_errno, clears)
            /\ rv' = s.rv
            /\ pc' = IF s.act = "error" THEN "ret" ELSE "loop"
            /\ extract_count' = IF s.act = "extract"
                                  THEN Callback(extract_count, hascb)
                                  ELSE extract_count
            /\ h' = [h EXCEPT
                     !.extractFailed = @ \/ (s.act = "extract" /\ s.rv # 0),
                     !.extracted = IF s.act = "extract" /\ s.rv = 0
                                     THEN @ \cup {p} ELSE @,
                     !.earlyData = @ \/ ~propsd \/ ~filesd,
                     !.unwritten = @ \/ (IsReg(p) /\ s.disk[p] # "new"),
                     !.confPre = IF ~update /\ p = "c" /\ disk[p] # "absent"
                                   THEN disk[p] ELSE @,
                     !.confSkip =
                        IF update /\ p = "c" /\ disk[p] = "new" /\ hash = 0
                          THEN IF /\ s.act = "hashskip" /\ s.ren = "no"
                                  /\ s.disk = disk /\ @ # "bad"
                                 THEN "ok" ELSE "bad"
                          ELSE @,
                     !.nocb = @ \/ (hascb /\ s.act \in {"hashskip", "keep"}),
                     !.fault = @ \/ s.rv # 0 \/ s.ren = "fail",
                     !.later = @ \/ h.entryErrAt # 0,
                     !.entryErrAt = IF s.rv # 0 /\ @ = 0 THEN nread + 1 ELSE @]
    /\ UNCHANGED pvars
    /\ UNCHANGED <<update, preserve, hascb, pkgstate, meta, filesd, propsd,
                   entry_idx>>

\* archive_read_next_header returns something else than ARCHIVE_OK: the end
\* of the archive (e = 0) or a read error, then rv = archive_errno(ar).
ArchiveEnd ==
    /\ pc = "loop"
    /\ \E clears \in BOOLEAN, e \in {0} \cup ErrnoSet :
        LET n == IF e # 0 THEN e ELSE HeaderErrno(ar_errno, clears) IN
        /\ ar_errno = 0 => clears
        /\ ar_errno' = n
        /\ rv' = n
        /\ pc' = IF n # 0 THEN "ret" ELSE "post"
        /\ h' = [h EXCEPT !.eof = (e = 0), !.fault = @ \/ e # 0]
    /\ UNCHANGED pvars
    /\ UNCHANGED <<update, preserve, hascb, pkgstate, disk, meta, filesd,
                   propsd, entry_idx, extract_count, nread>>

\* The paths the manifest of the installed version lists.
OldManifestPaths == {"f", "o"}

\* The paths listed by the manifest read from the metadata directory.
ManifestPaths(m) ==
    CASE m = "old" -> OldManifestPaths
      [] m = "new" -> DataPaths
      [] OTHER     -> {}

\* Paths the manifest read lists and the new one (all data paths, when it
\* was internalized) does not: what xbps_remove_obsoletes deletes.
ObsoletePaths(m, fd) == ManifestPaths(m) \ (IF fd THEN DataPaths ELSE {})

xbps_remove_obsoletes(d, m, fd) ==
    [p \in DiskPaths |-> IF p \in ObsoletePaths(m, fd) THEN "absent" ELSE d[p]]

\* Obsolete files are looked for on an update of a package that does not
\* set preserve.
ChecksObsoletes(pres, upd) == ~(pres \/ ~upd)

\* After the loop: the path of the manifest, and on an update without
\* preserve the previous manifest and the removal of obsolete files.
\* a is the result of the allocation, l of reading the previous manifest,
\* r of xbps_remove_obsoletes.
Reconcile ==
    /\ pc = "post"
    /\ \E a \in {0, ENOMEM}, l \in {0} \cup ErrnoSet, r \in {0} \cup ErrnoSet :
        IF a # 0 THEN
            /\ rv' = a /\ pc' = "ret" /\ h' = [h EXCEPT !.fault = TRUE]
            /\ UNCHANGED disk
        ELSE IF ~ChecksObsoletes(preserve, update) THEN
            /\ pc' = "out1" /\ UNCHANGED <<rv, disk, h>>
        ELSE IF meta.files = "none" THEN
            \* no previous manifest: errno is ENOENT
            /\ pc' = "out1" /\ h' = [h EXCEPT !.obs = "noprev"]
            /\ UNCHANGED <<rv, disk>>
        ELSE IF l # 0 THEN
            /\ rv' = l /\ pc' = "ret" /\ h' = [h EXCEPT !.fault = TRUE]
            /\ UNCHANGED disk
        ELSE IF r # 0 THEN
            /\ rv' = r /\ pc' = "ret"
            /\ h' = [h EXCEPT !.obs = "fail", !.fault = TRUE]
            /\ UNCHANGED disk
        ELSE
            /\ disk' = xbps_remove_obsoletes(disk, meta.files, filesd)
            /\ rv' = 0 /\ pc' = "out1" /\ h' = [h EXCEPT !.obs = "ok"]
    /\ UNCHANGED pvars
    /\ UNCHANGED <<update, preserve, hascb, pkgstate, meta, filesd, propsd,
                   entry_idx, extract_count, nread, ar_errno>>

\* out1: the metadata directory is created and the new manifest written to
\* it. o = "ok", "fail", or "crash": externalizing a manifest that was never
\* internalized (filesd == NULL) either fails or ends the process.
PersistManifest ==
    /\ pc = "out1"
    /\ \E o \in {"fail"} \cup (IF filesd THEN {"ok"} ELSE {"crash"}),
          e \in {ENOMEM} \cup ErrnoSet :
        /\ pc' = IF o = "crash" THEN "crashed" ELSE "ret"
        /\ rv' = IF o = "fail" THEN e ELSE rv
        /\ meta' = IF o = "ok" THEN [meta EXCEPT !.files = "new"] ELSE meta
        /\ h' = [h EXCEPT !.persisted = (o = "ok"),
                          !.fault = @ \/ (o = "fail" /\ filesd)]
    /\ UNCHANGED pvars
    /\ UNCHANGED <<update, preserve, hascb, pkgstate, disk, filesd, propsd,
                   entry_idx, extract_count, nread, ar_errno>>

\* Variant: the state is set to unpacked whatever unpack_archive returned,
\* and the error of unpack_archive is what the routine returns.
ReturnWritesUnpackedAnyway ==
    /\ pc = "ret"
    /\ \E r \in {0} \cup ErrnoSet :
        /\ rv' = IF rv # 0 THEN rv ELSE r
        /\ pkgstate' = IF r = 0 THEN "unpacked" ELSE pkgstate
        /\ h' = [h EXCEPT !.fault = @ \/ r # 0]
    /\ pc' = "done"
    /\ UNCHANGED pvars
    /\ UNCHANGED <<update, preserve, hascb, disk, meta, filesd, propsd,
                   entry_idx, extract_count, nread, ar_errno>>

\* xbps_unpack_binary_pkg after unpack_archive returned rv.
Return ==
    /\ pc = "ret"
    /\ IF WritesUnpacked(rv)
         THEN \E r \in {0} \cup ErrnoSet :
                /\ rv' = r
                /\ pkgstate' = IF r = 0 THEN "unpacked" ELSE pkgstate
                /\ h' = [h EXCEPT !.fault = @ \/ r # 0]
         ELSE UNCHANGED <<rv, pkgstate, h>>
    /\ pc' = "done"
    /\ UNCHANGED pvars
    /\ UNCHANGED <<update, preserve, hascb, disk, meta, filesd, propsd,
                   entry_idx, extract_count, nread, ar_errno>>


\* ---------------------------------------------------- repository pool steps
PoolInit ==
    /\ UnpackOff
    /\ pool \in [Repos -> RepoContents]
    /\ annot = [i \in Repos |-> [foo |-> 0, bar |-> 0]]
    /\ ppc = "idle"
    /\ call = NoCall
    /\ rpf = NewRpf(1, FALSE, FALSE)
    /\ outer = NewRpf(1, FALSE, FALSE)
    /\ cb = "pkg"
    /\ idx = 1
    /\ done = FALSE
    /\ frv = 0
    /\ perrno = 0
    /\ result = NullPkg
    /\ ph = [visited |-> <<>>]

\* xbps_repository_pool_find_pkg, _find_virtualpkg, _find_pkg_exact enter
\* repo_find_pkg, which starts the iteration.
PoolCall ==
    /\ ppc = "idle"
    /\ \E c \in Calls :
        /\ call' = c
        /\ rpf' = NewRpf(c.pkg, c.bypattern, c.fn = "find_pkg_exact")
        /\ cb' = Dispatch(c.fn = "find_pkg_exact", c.best,
                          c.fn = "find_virtualpkg")
    /\ ppc' = "scan"
    /\ idx' = 1 /\ done' = FALSE /\ frv' = 0
    /\ UNCHANGED <<pool, annot, outer, perrno, result, ph>>
    /\ UNCHANGED uvars

\* repo_find_pkg_cb on repository idx.
repo_find_pkg_cb ==
    /\ ppc \in {"scan", "rescan"} /\ cb = "pkg"
    /\ ForeachMore(idx, done, frv)
    /\ IF PkgCbSkips(rpf, idx)
         THEN UNCHANGED <<rpf, annot, done, perrno>>
         ELSE LET d == PkgCbLookup(rpf, pool, annot, idx) IN
              IF d # NullPkg
                THEN /\ annot' = [annot EXCEPT ![idx][d.name] = idx]
                     /\ rpf' = [rpf EXCEPT !.pkgd = [d EXCEPT !.repository = idx]]
                     /\ done' = PkgCbDone(TRUE)
                     /\ UNCHANGED perrno
                ELSE /\ rpf' = [rpf EXCEPT !.pkgd = NullPkg]
                     /\ perrno' = LookupErrno(pool[idx])
                     /\ done' = (done \/ PkgCbDone(FALSE))
                     /\ UNCHANGED annot
    /\ frv' = 0
    /\ idx' = idx + 1
    /\ ph' = IF ppc = "scan" THEN [ph EXCEPT !.visited = Append(@, idx)] ELSE ph
    /\ UNCHANGED <<pool, ppc, call, outer, cb, result>>
    /\ UNCHANGED uvars

\* repo_find_best_pkg_cb on repository idx.
repo_find_best_pkg_cb ==
    /\ ppc = "scan" /\ cb = "best"
    /\ ForeachMore(idx, done, frv)
    /\ IF HasPkg(pool[idx], rpf.bypattern, rpf.pattern)
         THEN LET d == Entry(pool, annot, idx, "foo") IN
              /\ rpf' = IF rpf.bestpkgver = 0 \/ ReplacesBest(d.ver, rpf.bestpkgver)
                          THEN [rpf EXCEPT !.pkgd = d, !.bestpkgver = d.ver,
                                           !.repo_bestmatch = idx]
                          ELSE [rpf EXCEPT !.pkgd = d]
              /\ frv' = 0
              /\ UNCHANGED perrno
         ELSE LET e == LookupErrno(pool[idx]) IN
              /\ rpf' = [rpf EXCEPT !.pkgd = NullPkg]
              /\ perrno' = e
              /\ frv' = IF e # 0 /\ e # ENOENT THEN e ELSE 0
    /\ idx' = idx + 1
    /\ ph' = [ph EXCEPT !.visited = Append(@, idx)]
    /\ UNCHANGED <<pool, annot, ppc, call, outer, cb, done, result>>
    /\ UNCHANGED uvars

\* repo_find_virtualpkg_cb on repository idx.
repo_find_virtualpkg_cb ==
    /\ ppc = "scan" /\ cb = "virt"
    /\ ForeachMore(idx, done, frv)
    /\ IF HasVirtual(pool[idx], rpf.bypattern, rpf.pattern)
         THEN /\ annot' = [annot EXCEPT ![idx]["bar"] = idx]
              /\ rpf' = [rpf EXCEPT !.pkgd =
                            [Entry(pool, annot, idx, "bar") EXCEPT !.repository = idx]]
              /\ done' = TRUE
              /\ UNCHANGED perrno
         ELSE /\ rpf' = [rpf EXCEPT !.pkgd = NullPkg]
              /\ perrno' = LookupErrno(pool[idx])
              /\ UNCHANGED <<annot, done>>
    /\ frv' = 0
    /\ idx' = idx + 1
    /\ ph' = [ph EXCEPT !.visited = Append(@, idx)]
    /\ UNCHANGED <<pool, ppc, call, outer, cb, result>>
    /\ UNCHANGED uvars

\* repo_find_pkg after the iteration of a best-match scan that found a
\* version: xbps_repository_pool_find_pkg_exact(rpf->bestpkgver), which
\* enters repo_find_pkg again with a struct of its own.
BestRescan ==
    /\ ppc = "scan" /\ cb = "best"
    /\ ~ForeachMore(idx, done, frv)
    /\ rpf.bestpkgver # 0
    /\ perrno' = IF frv # 0 THEN frv ELSE perrno
    /\ outer' = rpf
    /\ rpf' = NewRpf(rpf.bestpkgver, FALSE, TRUE)
    /\ cb' = Dispatch(TRUE, FALSE, FALSE)
    /\ idx' = 1 /\ done' = FALSE /\ frv' = 0
    /\ ppc' = "rescan"
    /\ UNCHANGED <<pool, annot, call, result, ph>>
    /\ UNCHANGED uvars

\* The exact lookup of the best version returns a copy of what it found,
\* which becomes the dictionary of the best-match scan.
RescanEnd ==
    /\ ppc = "rescan"
    /\ ~ForeachMore(idx, done, frv)
    /\ perrno' = IF frv # 0 THEN frv ELSE perrno
    /\ rpf' = [outer EXCEPT !.pkgd = IF rpf.pkgd = NullPkg THEN NullPkg
                                     ELSE Copy(rpf.pkgd)]
    /\ ppc' = "ret"
    /\ UNCHANGED <<pool, annot, call, outer, cb, idx, done, frv, result, ph>>
    /\ UNCHANGED uvars

\* repo_find_pkg returns after the iteration.
ScanEnd ==
    /\ ppc = "scan"
    /\ ~ForeachMore(idx, done, frv)
    /\ ~(cb = "best" /\ rpf.bestpkgver # 0)
    /\ perrno' = IF frv # 0 THEN frv ELSE perrno
    /\ ppc' = "ret"
    /\ UNCHANGED <<pool, annot, call, rpf, outer, cb, idx, done, frv, result, ph>>
    /\ UNCHANGED uvars

\* The public routine copies the dictionary found, if any, for the caller.
PoolReturn ==
    /\ ppc = "ret"
    /\ result' = IF rpf.pkgd = NullPkg THEN NullPkg ELSE Copy(rpf.pkgd)
    /\ ppc' = "returned"
    /\ UNCHANGED <<pool, annot, call, rpf, outer, cb, idx, done, frv, perrno, ph>>
    /\ UNCHANGED uvars

PoolNext ==
    \/ PoolCall
    \/ repo_find_pkg_cb
    \/ repo_find_best_pkg_cb
    \/ repo_find_virtualpkg_cb
    \/ BestRescan
    \/ RescanEnd
    \/ ScanEnd
    \/ PoolReturn

PoolSpec == PoolInit /\ [][PoolNext]_vars

Next ==
    \/ OpenArchive
    \/ SetHalfUnpacked
    \/ Prelude
    \/ EntryDir
    \/ EntryInstall
    \/ EntryRemove
    \/ EntryFiles
    \/ EntryProps
    \/ EntrySkipped
    \/ EntryData
    \/ ArchiveEnd
    \/ Reconcile
    \/ PersistManifest
    \/ Return

Spec == Init /\ [][Next]_vars

\* The install of a package on a fresh root: nothing of the package on
\* disk, an empty metadata directory. The routine is one thread of control
\* that runs to its end, hence the fairness condition.
InitFresh ==
    /\ Init
    /\ ~update
    /\ \A p \in DiskPaths : disk[p] = "absent"
    /\ ~meta.INSTALL /\ ~meta.REMOVE

FreshSpec == InitFresh /\ [][Next]_vars /\ WF_vars(Next)

\* ------------------------------------------------------------- properties
Min(S) == CHOOSE m \in S : \A n \in S : m <= n

\* C1: the state unpacked is written only in runs where every extraction
\* of a data file succeeded, the removal of obsolete files did not fail and
\* the new manifest was written to the metadata directory.
C1_UnpackedOnlyAfterSuccess ==
    pkgstate = "unpacked" =>
        /\ ~h.extractFailed
        /\ h.obs # "fail"
        /\ h.persisted

\* C2: half-unpacked is written before any header of the archive is read,
\* any entry extracted or the pre action of INSTALL run; when that write
\* fails nothing of the archive is read and the routine returns the failure.
C2_HalfUnpackedFirst ==
    /\ (nread > 0 \/ h.pre # "no" \/ h.extracted # {} \/ meta.files = "new")
           => (h.halfWritten /\ pkgstate \in {"half-unpacked", "unpacked"})
    /\ h.halfFailed =>
           /\ pc = "done" /\ rv # 0
           /\ nread = 0 /\ h.pre = "no" /\ h.extracted = {}
           /\ pkgstate \notin {"half-unpacked", "unpacked"}

C2_Witness ==
    /\ pkgstate = "half-unpacked"
    /\ h.pre = "ok"
    /\ h.extracted # {}

\* C3: an error on one archive entry ends the unpack: no later entry
\* (other than a directory, which is skipped) is handled and the routine
\* returns a non-zero status.
C3_EntryErrorAborts ==
    h.entryErrAt # 0 =>
        /\ ~h.later
        /\ pc = "done" => rv # 0

\* C4: when the pre action of INSTALL fails the routine returns a non-zero
\* status, the state stays half-unpacked, no header after INSTALL is read,
\* obsolete files are not looked for and the manifest is not written.
C4_PreInstallFailure ==
    h.pre = "fail" =>
        /\ pc \in {"ret", "done"}
        /\ rv # 0
        /\ pkgstate = "half-unpacked"
        /\ nread = h.preAt
        /\ h.obs = "notrun"
        /\ ~h.persisted

C4_Witness ==
    /\ h.pre = "fail"
    /\ pc = "done"
    /\ pkgstate = "half-unpacked"

\* C5: when the routine returns a non-zero status after half-unpacked was
\* written, the state is half-unpacked and every file extracted is on disk.
C5_FailureKeepsHalfUnpacked ==
    (pc = "done" /\ rv # 0 /\ h.halfWritten) =>
        /\ pkgstate = "half-unpacked"
        /\ \A p \in h.extracted : disk[p] = "new"

C5_Witness ==
    /\ pc = "done" /\ rv # 0
    /\ h.halfWritten
    /\ h.extracted # {}

\* C6: no data entry is classified, digest-checked or extracted while one
\* of files.plist and props.plist was not internalized.
C6_ManifestsBeforeData == ~h.earlyData

C6_Witness ==
    /\ entry_idx > 0
    /\ h.extracted # {}
    /\ filesd /\ propsd

\* C7: an unpack of an archive that holds data entries and was read to its
\* end without supplying both manifests, and in which no external call
\* failed, returns ENODEV and does not write unpacked.
C7_MissingManifestIsENODEV ==
    (/\ pc \in {"done", "crashed"}
     /\ h.eof /\ ~h.fault
     /\ entry_idx > 0
     /\ ~(filesd /\ propsd)) =>
        /\ pc = "done"
        /\ rv = ENODEV
        /\ pkgstate # "unpacked"

\* Every repository of the pool can be searched.
NoBadRepo == \A i \in Repos : ~pool[i].bad

BestCall == call.fn = "find_pkg" /\ call.best

\* C8: the best-match lookup returns a version greater than or equal to
\* the version of the match of every repository.
C8_BestIsHighest ==
    (ppc = "returned" /\ BestCall /\ NoBadRepo) =>
        \A i \in Repos :
            HasPkg(pool[i], call.bypattern, call.pkg) =>
                (result # NullPkg /\ result.ver >= pool[i].foo)

\* C9: the dictionary the best-match lookup returns carries the URI of the
\* repository the scan recorded for the best version.
C9_BestAnnotatedWithOrigin ==
    (ppc = "returned" /\ BestCall /\ NoBadRepo /\ result # NullPkg) =>
        result.repository = rpf.repo_bestmatch

\* The repositories in which the lookup by name or pattern finds a package
\* or, failing that, a virtual package.
Hits ==
    {i \in Repos : \/ HasPkg(pool[i], call.bypattern, call.pkg)
                   \/ HasVirtual(pool[i], call.bypattern, call.pkg)}

\* C10: the lookup that is not a best-match one returns the match of the
\* first repository in pool order that has one, and visits no repository
\* after it.
C10_FindFirstMatch ==
    (ppc = "returned" /\ call.fn = "find_pkg" /\ ~call.best) =>
        IF Hits = {}
          THEN result = NullPkg /\ Len(ph.visited) = MaxRepos
          ELSE LET m == Min(Hits)
                   n == IF HasPkg(pool[m], call.bypattern, call.pkg)
                          THEN "foo" ELSE "bar"
               IN /\ result = [name |-> n,
                               ver |-> IF n = "foo" THEN pool[m].foo ELSE 1,
                               repository |-> m, ref |-> 0]
                  /\ ph.visited = [i \in 1 .. m |-> i]

C10_Witness ==
    /\ ppc = "returned" /\ call.fn = "find_pkg" /\ ~call.best
    /\ result # NullPkg
    /\ \E j \in Repos : j > result.repository /\ pool[j].foo > result.ver

\* C11: the lookups leave the catalogs of the repositories as they were:
\* no catalog entry carries a "repository" object.
C11_CatalogsUnchanged ==
    ppc = "returned" => \A i \in Repos : annot[i] = [foo |-> 0, bar |-> 0]

\* A repository whose lookup failed with an error other than ENOENT was
\* visited by the scan.
BadVisited == \E k \in 1 .. Len(ph.visited) : pool[ph.visited[k]].bad

\* C12: when the lookup in a repository fails with an error other than
\* not-found, the scan stops at that repository and the caller gets no
\* dictionary and the error; when nothing fails and nothing matches the
\* caller gets no dictionary and no error.
C12_LookupErrorSurfaces ==
    ppc = "returned" =>
        /\ BadVisited =>
            /\ result = NullPkg
            /\ perrno \notin {0, ENOENT}
            /\ pool[ph.visited[Len(ph.visited)]].bad
        /\ (NoBadRepo /\ result = NullPkg) => perrno \in {0, ENOENT}

\* C13: on an install, once a configuration file entry whose path existed
\* was handled and no call failed, "<path>.old" holds the content the file
\* had and "<path>" the content of the new package.
C13_ConfFileBackedUp ==
    (h.confPre # "none" /\ ~h.fault) =>
        /\ disk["c.old"] = h.confPre
        /\ disk["c"] = "new"

\* C14: on an update, a configuration file entry whose path exists with
\* the digest of the new manifest is skipped: nothing is extracted or
\* renamed, the disk is as before, and the loop goes on.
C14_UnchangedConfSkipped ==
    /\ h.confSkip # "bad"
    /\ h.confSkip = "ok" => (disk["c"] = "new" /\ disk["c.old"] = "absent")

C14_Witness ==
    /\ h.confSkip = "ok"
    /\ "c" \notin h.extracted
    /\ "l" \in h.extracted
    /\ pkgstate = "unpacked"

\* C15: obsolete files are looked for only on an update of a package that
\* does not set preserve, and only after the archive was read to its end
\* with no error on any entry; without a previous manifest nothing is
\* deleted and the unpack succeeds when nothing else fails.
C15_ObsoletesOnlyAfterCleanStream ==
    /\ h.obs # "notrun" =>
        /\ update /\ ~preserve
        /\ h.eof
        /\ ~h.extractFailed /\ h.entryErrAt = 0
    /\ h.obs = "noprev" =>
        /\ disk["o"] = "old"
        /\ (pc = "done" /\ filesd /\ ~h.fault) => (rv = 0 /\ pkgstate = "unpacked")

\* The archive shipped both scripts and both manifests, no data entry came
\* ahead of the manifests, it was read to its end and no call failed.
WellFormedRun ==
    /\ ~update
    /\ h.shipped = {"INSTALL", "REMOVE"}
    /\ propsd /\ filesd /\ entry_idx = 0
    /\ h.eof /\ ~h.fault

Installed ==
    /\ rv = 0
    /\ pkgstate = "unpacked"
    /\ meta = [INSTALL |-> TRUE, REMOVE |-> TRUE, props |-> TRUE, files |-> "new"]
    /\ ~h.unwritten
    /\ \A p \in h.extracted : IsReg(p) => disk[p] = "new"

\* C16: the install of a well-formed archive on a fresh root, with no call
\* failing, comes to its end, returns 0, leaves the state unpacked, the
\* scripts, the properties and the manifest in the metadata directory and
\* every regular file of the archive on disk.
C16_FreshInstallCompletes ==
    /\ [](WellFormedRun => (pc # "crashed" /\ (pc = "done" => Installed)))
    /\ <>(pc \in {"done", "crashed"})

C16_Witness ==
    /\ pc = "done"
    /\ WellFormedRun
    /\ "f" \in h.extracted

\* C17: the lookup of a virtual package returns nothing that the lookup
\* of packages (by name, by pattern or best version) found.
C17_VirtualOnly ==
    (/\ ppc = "returned" /\ call.fn = "find_virtualpkg"
     /\ NoBadRepo /\ result # NullPkg) => result.name = "bar"

\* C18: the lookup by name or pattern asks each repository for a package
\* and, when it has none, for a virtual package, before the next repository
\* is visited; the exact and the best-match lookups return no virtual
\* package.
C18_ConcreteThenVirtual ==
    (ppc = "returned" /\ result # NullPkg) =>
        /\ (call.fn = "find_pkg" /\ ~call.best) =>
            LET m == result.repository IN
            /\ result.name = IF HasPkg(pool[m], call.bypattern, call.pkg)
                                THEN "foo" ELSE "bar"
            /\ \A j \in 1 .. (m - 1) :
                    /\ ~HasPkg(pool[j], call.bypattern, call.pkg)
                    /\ ~HasVirtual(pool[j], call.bypattern, call.pkg)
        /\ (call.fn = "find_pkg_exact" \/ BestCall) => result.name = "foo"

C18_Witness ==
    /\ ppc = "returned" /\ call.fn = "find_pkg" /\ ~call.best
    /\ result.name = "bar"
    /\ \E j \in Repos : /\ j > result.repository
                         /\ HasPkg(pool[j], call.bypattern, call.pkg)

\* C19: on an update the scripts of the installed version are removed
\* before the first header is read, so a script in the metadata directory
\* is one the archive shipped; a failing removal ends the unpack before any
\* header is read; on an install no script is removed.
C19_ScriptsRemovedOnUpdate ==
    /\ []((update /\ nread > 0) =>
            /\ meta.INSTALL => "INSTALL" \in h.shipped
            /\ meta.REMOVE => "REMOVE" \in h.shipped)
    /\ [](h.rmFailed => (nread = 0 /\ pc \in {"ret", "done"} /\ rv # 0))
    /\ [][~update => ((meta.INSTALL => meta'.INSTALL) /\
                      (meta.REMOVE => meta'.REMOVE))]_vars

C19_Witness ==
    /\ update /\ pc = "done" /\ rv = 0
    /\ h.shipped = {}
    /\ ~meta.INSTALL /\ ~meta.REMOVE
    /\ pkgstate = "unpacked"

\* C20: with a callback set, every entry that is not a directory and was
\* handled to its end (extracted, internalized or skipped) was followed by
\* one call of the callback.
C20_CallbackAfterEachEntry == hascb => ~h.nocb

\* The repositories in which the best-match lookup finds a package.
Matches == {i \in Repos : HasPkg(pool[i], call.bypattern, call.pkg)}

\* The first repository in pool order among those of the highest version.
FirstHighest ==
    Min({i \in Matches : \A j \in Matches : pool[i].foo >= pool[j].foo})

\* C21: the best-match scan visits every repository, and the match it
\* records is replaced only by one of a strictly greater version: it ends
\* with the first repository in pool order that holds the highest version.
C21_BestScanStable ==
    (ppc = "returned" /\ BestCall /\ NoBadRepo) =>
        /\ ph.visited = [i \in 1 .. MaxRepos |-> i]
        /\ Matches # {} => rpf.repo_bestmatch = FirstHighest

\* C22: while a manifest is missing a data entry is skipped without a
\* change on disk and counted; three are let through and the fourth ends
\* the unpack with ENODEV; no other entry is counted.
C22_SkipLimit ==
    /\ [](entry_idx <= SkipLimit)
    /\ []((pc \in {"ret", "done"} /\ rv = ENODEV) =>
            /\ entry_idx = SkipLimit
            /\ ~(filesd /\ propsd)
            /\ nread >= SkipLimit + 1
            /\ pkgstate = "half-unpacked")
    /\ [][EntrySkipped =>
            /\ ~(filesd /\ propsd)
            /\ disk' = disk /\ meta' = meta
            /\ IF entry_idx < SkipLimit
                 THEN entry_idx' = entry_idx + 1 /\ pc' = "loop" /\ rv' = rv
                 ELSE entry_idx' = entry_idx /\ pc' = "ret" /\ rv' = ENODEV]_vars
    /\ [][EntrySkipped \/ entry_idx' = entry_idx]_vars

C22_Witness ==
    /\ pc = "done" /\ rv = ENODEV
    /\ entry_idx = SkipLimit
    /\ nread > SkipLimit + 1

\* C23: when the unpack returns 0 and the state is unpacked, every data
\* entry of the archive was extracted, or left as it is for a matching
\* digest or a configuration file that is kept: none was skipped ahead of
\* the manifests and no extraction failed.
C23_NoEntryDropped ==
    (pc = "done" /\ rv = 0 /\ pkgstate = "unpacked") =>
        /\ entry_idx = 0
        /\ ~h.extractFailed

\* C24: the manifest in the metadata directory is replaced only at the end,
\* after the obsolete files were looked for where that applies, so the
\* obsolete files are those of the manifest of the installed version.
C24_OldManifestReadFirst ==
    /\ meta.files = "new" =>
        /\ h.persisted
        /\ pc \in {"ret", "done"}
        /\ (update /\ ~preserve) => h.obs \in {"ok", "noprev"}
    /\ h.obs = "ok" => disk["o"] = "absent"

C24_Witness ==
    /\ update /\ ~preserve
    /\ h.obs = "ok" /\ h.persisted
    /\ propsd /\ "l" \in h.extracted
    /\ meta.files = "new"
    /\ disk["o"] = "absent"
    /\ pkgstate = "unpacked"

\* C25: when the package file cannot be located or opened the routine
\* returns an error, writes no state and changes no file of the root or of
\* the metadata directory.
C25_OpenFailureTouchesNothing ==
    /\ [](h.openFailed =>
            /\ pc = "done" /\ rv # 0
            /\ ~h.halfWritten /\ ~h.halfFailed
            /\ pkgstate \notin {"half-unpacked", "unpacked"}
            /\ nread = 0)
    /\ [][h'.openFailed =>
            (pkgstate' = pkgstate /\ disk' = disk /\ meta' = meta)]_vars

C25_Witness ==
    /\ h.openFailed
    /\ pc = "done" /\ rv # 0
    /\ update /\ pkgstate = "installed"

====
